---- MODULE Spec2Model ----
(***************************************************************************)
(* Model of time_stamped_model/models.py: the creation / modification      *)
(* date-time fields with their per-instance suppression flags, and the     *)
(* TimeStampedModel helpers make_new_slug and set_order_field.             *)
(***************************************************************************)
EXTENDS Integers, Sequences, FiniteSets, TLC

\* inst     the TimeStampedModel instance in memory (pk, created, modified,
\*          update_created, update_modified)
\* db       the stored row of that record
\* clock    the current time
\* hist     the last timestamp operation and the values it started from
\* storage  the table of a model with slug, grp and order fields
\* rec      the instance of that model in memory
\* shist    the last slug / order operation, its arguments and outcome
\* cr       two concurrent creators of new records
\* uniq     whether the slug column carries a uniqueness constraint
\* raced    whether both creators probed before either saved
VARIABLES inst, db, clock, hist, storage, rec, shist, cr, uniq, raced

tvars == <<inst, db, clock, hist>>
svars == <<storage, rec, shist>>
rvars == <<cr, uniq, raced>>
vars == <<inst, db, clock, hist, storage, rec, shist, cr, uniq, raced>>

----------------------------------------------------------------------------
(* Bounds                                                                  *)

MaxClock == 3
MaxDate == 3
MaxRecords == 2
MaxEdited == 1
MaxOrder == 2

----------------------------------------------------------------------------
(* Timestamp fields                                                        *)

\* Python's None for a date-time attribute (dates are naturals).
None == -1

\* The dates a caller may hand to set_created_date / set_modified_date or to
\* the model constructor.
Dates == 0 .. MaxDate

OptDates == Dates \cup {None}

\* A TimeStampedModel instance that was never saved: no primary key, the
\* two fields as given to the constructor, no update_created /
\* update_modified attribute (getattr(..., True) reads them as True).
FreshInstance(c, m) ==
    [pk |-> None, created |-> c, modified |-> m,
     update_created |-> TRUE, update_modified |-> TRUE]

\* Variant: auto_now_add taken without regard to add.
DateTimeFieldPreSave_IgnoreAdd(auto_now, auto_now_add, mi, attname, add, now) ==
    IF auto_now \/ auto_now_add THEN now ELSE mi[attname]

\* django DateTimeField.pre_save, reached through super().pre_save(): the
\* current time when auto_now, or auto_now_add on an insert, else the
\* attribute as it stands.  The value returned is also the attribute's value
\* after the call.
DateTimeFieldPreSave(auto_now, auto_now_add, mi, attname, add, now) ==
    IF auto_now \/ (auto_now_add /\ add) THEN now ELSE mi[attname]

\* Variant: the update_created test left out.
CreationPreSave_IgnoreFlag(auto_now, auto_now_add, mi, attname, add, now) ==
    DateTimeFieldPreSave(auto_now, auto_now_add, mi, attname, add, now)

\* CreationDateTimeField.pre_save (self is a field with the given auto_now /
\* auto_now_add settings and attribute name).
CreationPreSave(auto_now, auto_now_add, mi, attname, add, now) ==
    IF ~mi.update_created /\ mi[attname] # None
    THEN mi[attname]
    ELSE DateTimeFieldPreSave(auto_now, auto_now_add, mi, attname, add, now)

\* Variant: a value already held is kept whatever update_modified is.
ModificationPreSave_KeepValue(mi, attname, add, now) ==
    IF mi[attname] # None
    THEN mi[attname]
    ELSE CreationPreSave(TRUE, FALSE, mi, attname, add, now)

\* ModificationDateTimeField.pre_save; its super() is CreationDateTimeField.
\* The field is built with auto_now = True and DateTimeField's default
\* auto_now_add = False.
ModificationPreSave(mi, attname, add, now) ==
    IF ~mi.update_modified /\ mi[attname] # None
    THEN mi[attname]
    ELSE CreationPreSave(TRUE, FALSE, mi, attname, add, now)

\* created = CreationDateTimeField(): auto_now_add = True, auto_now unset.
CreatedPreSave(mi, add, now) ==
    CreationPreSave(FALSE, TRUE, mi, "created", add, now)

\* modified = ModificationDateTimeField()
ModifiedPreSave(mi, add, now) ==
    ModificationPreSave(mi, "modified", add, now)

NoHist ==
    [op |-> "init", time |-> None, add |-> FALSE,
     pre_created |-> None, pre_modified |-> None,
     prev_created |-> None, prev_modified |-> None,
     manual_created |-> None, manual_modified |-> None,
     auto_modified |-> FALSE, prev_auto |-> FALSE]

TInit ==
    /\ inst = FreshInstance(None, None)
    /\ db = [exists |-> FALSE, created |-> None, modified |-> None]
    /\ clock = 1
    /\ hist = NoHist

\* MyModel(created=c, modified=m): a new unsaved instance of the record.
NewInstance(c, m) ==
    /\ ~db.exists
    /\ inst' = FreshInstance(c, m)
    /\ hist' = [hist EXCEPT !.op = "new", !.manual_created = None,
                            !.manual_modified = None]
    /\ UNCHANGED <<db, clock, svars, rvars>>

\* TimeStampedModel.set_created_date
set_created_date(created_date) ==
    /\ inst' = [inst EXCEPT !.update_created = FALSE,
                            !.created = created_date]
    /\ hist' = [hist EXCEPT !.op = "set_created_date",
                            !.manual_created = created_date]
    /\ UNCHANGED <<db, clock, svars, rvars>>

\* TimeStampedModel.set_modified_date
set_modified_date(modified_date) ==
    /\ inst' = [inst EXCEPT !.update_modified = FALSE,
                            !.modified = modified_date]
    /\ hist' = [hist EXCEPT !.op = "set_modified_date",
                            !.manual_modified = modified_date]
    /\ UNCHANGED <<db, clock, svars, rvars>>

\* Model.save(): pre_save of created, then of modified, then the INSERT (no
\* primary key yet) or UPDATE.  Both columns are NOT NULL, so a None value
\* makes the statement fail after the pre_save hooks have run.  The clock
\* advances with every save.
Persist ==
    /\ clock <= MaxClock
    /\ LET add == inst.pk = None
           c == CreatedPreSave(inst, add, clock)
           m == ModifiedPreSave(inst, add, clock)
           ok == c # None /\ m # None
       IN /\ inst' = [inst EXCEPT !.created = c, !.modified = m,
                                  !.pk = IF ok THEN 1 ELSE @]
          /\ db' = IF ok THEN [exists |-> TRUE, created |-> c, modified |-> m]
                         ELSE db
          /\ hist' = [hist EXCEPT
                        !.op = IF ok THEN "persist" ELSE "persist_failed",
                        !.time = clock,
                        !.add = add,
                        !.pre_created = inst.created,
                        !.pre_modified = inst.modified,
                        !.prev_created = db.created,
                        !.prev_modified = db.modified,
                        !.prev_auto = hist.auto_modified,
                        !.auto_modified = IF ok THEN inst.update_modified
                                                ELSE @]
    /\ clock' = clock + 1
    /\ UNCHANGED <<svars, rvars>>

\* MyModel.objects.get(pk=...): a fresh instance of the stored record, which
\* carries no suppression flag.
Reload ==
    /\ db.exists
    /\ inst' = [FreshInstance(db.created, db.modified) EXCEPT !.pk = 1]
    /\ hist' = [hist EXCEPT !.op = "reload", !.manual_created = None,
                            !.manual_modified = None]
    /\ UNCHANGED <<db, clock, svars, rvars>>

TNext ==
    \/ \E c \in OptDates, m \in OptDates : NewInstance(c, m)
    \/ \E d \in OptDates : set_created_date(d)
    \/ \E d \in OptDates : set_modified_date(d)
    \/ Persist
    \/ Reload


----------------------------------------------------------------------------
(* Strings: a string is a sequence of one-character strings                *)

Digit == <<"0", "1", "2", "3", "4", "5", "6", "7", "8", "9">>

\* str(count) inside the f-string f'{main_slug}{count}'
RECURSIVE Str(_)
Str(n) ==
    IF n < 10 THEN <<Digit[n + 1]>>
    ELSE Str(n \div 10) \o <<Digit[(n % 10) + 1]>>

\* value.lower()
Lower(c) == IF c = "A" THEN "a" ELSE IF c = "B" THEN "b" ELSE c

\* \w of the regular expressions in django.utils.text.slugify
IsWord(c) == c \in {"a", "b", "f", "_"} \/ \E i \in 1 .. 10 : Digit[i] = c

\* [-\s]
IsSep(c) == c \in {"-", " "}

\* re.sub(r'[^\w\s-]', '', value.lower())
RECURSIVE KeepSlugChars(_)
KeepSlugChars(s) ==
    IF s = <<>> THEN <<>>
    ELSE LET c == Lower(Head(s))
         IN (IF IsWord(c) \/ IsSep(c) THEN <<c>> ELSE <<>>)
                \o KeepSlugChars(Tail(s))

\* re.sub(r'[-\s]+', '-', value): every run of separators becomes one dash
RECURSIVE JoinSeps(_)
JoinSeps(s) ==
    IF s = <<>> THEN <<>>
    ELSE IF IsSep(Head(s))
         THEN IF Tail(s) # <<>> /\ IsSep(Head(Tail(s)))
              THEN JoinSeps(Tail(s))
              ELSE <<"-">> \o JoinSeps(Tail(s))
         ELSE <<Head(s)>> \o JoinSeps(Tail(s))

\* .strip('-_')
RECURSIVE LStrip(_)
LStrip(s) ==
    IF s # <<>> /\ Head(s) \in {"-", "_"} THEN LStrip(Tail(s)) ELSE s

RECURSIVE RStrip(_)
RStrip(s) ==
    IF s # <<>> /\ s[Len(s)] \in {"-", "_"}
    THEN RStrip(SubSeq(s, 1, Len(s) - 1)) ELSE s

\* django.utils.text.slugify on an ASCII string
slugify(value) == RStrip(LStrip(JoinSeps(KeepSlugChars(value))))

\* the slice [:45]
SlugLimit == 45

Truncate(s) == IF Len(s) > SlugLimit THEN SubSeq(s, 1, SlugLimit) ELSE s

\* str.replace('-', '_')
RECURSIVE ReplaceDashes(_)
ReplaceDashes(s) ==
    IF s = <<>> THEN <<>>
    ELSE <<IF Head(s) = "-" THEN "_" ELSE Head(s)>> \o ReplaceDashes(Tail(s))

\* The values str(uuid.uuid4()) may return: hexadecimal digits and dashes.
UUIDs == { <<"f", "-", "1">>, <<"f", "-", "2">> }

\* The base names callers pass (or the instance's name attribute holds).
Names ==
    { <<"A">>, <<"a">>, <<"a", "1">> }

\* The names used where records are also edited.
EditNames == { <<"A">>, <<"-", "!">> }

----------------------------------------------------------------------------
(* Storage collaborator and the record held in memory                      *)

\* A slug attribute that is None (never a value slugify or a caller's
\* string can take: its only element is not a single character).
NoneSlug == <<"None">>

IsBlank(current_slug) == current_slug = NoneSlug \/ current_slug = <<>>

Groups == {1, 2}

\* extra_filters: NoFilter is the default {} (every record matches), a group
\* g is the filter {'grp': g}.
NoFilter == 0

Filters == Groups \cup {NoFilter}

Matches(r, extra_filters) ==
    extra_filters = NoFilter \/ r.grp = extra_filters

\* obj.objects.filter(slug=slug, **extra_filters).exclude(pk=xpk).exists();
\* xpk = None when there is no exclude().  Primary keys are the positions
\* of the rows.
SlugExists(st, slug, extra_filters, xpk) ==
    \E p \in 1 .. Len(st) :
        /\ p # xpk
        /\ st[p].slug = slug
        /\ Matches(st[p], extra_filters)

\* exclude_list: not given (the default None) or a list of slugs.
NoExcludeList == [given |-> FALSE, items |-> {}]

ExcludeLists ==
    { NoExcludeList } \cup
    { [given |-> TRUE, items |-> s] :
        s \in { {}, {<<"a", "1">>} } }

\* The exclude lists used where records are also edited.
EditExcludeLists == { NoExcludeList, [given |-> TRUE, items |-> {}] }

\* `slug in exclude_list` raises TypeError when exclude_list is None.
Raised == [raised |-> TRUE, slug |-> <<>>]

Found(slug) == [raised |-> FALSE, slug |-> slug]

\* the inner loop: while slug in exclude_list (no dash replacement here)
RECURSIVE SkipExcluded(_, _, _, _)
SkipExcluded(main_slug, slug, count, items) ==
    IF slug \in items
    THEN SkipExcluded(main_slug, main_slug \o Str(count), count + 1, items)
    ELSE [slug |-> slug, count |-> count]

\* Variant: the loop body runs once, without the existence re-check.
ProbeLoop_NoRecheck(st, main_slug, slug, count, allow_dashes, extra_filters, exclude_list, xpk) ==
    LET body ==
            LET s1 == IF allow_dashes THEN main_slug \o Str(count)
                      ELSE ReplaceDashes(main_slug \o Str(count))
                r == SkipExcluded(main_slug, s1, count + 1,
                                  exclude_list.items)
            IN IF ~exclude_list.given THEN Raised ELSE Found(r.slug)
    IN IF SlugExists(st, slug, extra_filters, xpk) THEN body
       ELSE IF ~exclude_list.given THEN Raised
       ELSE IF slug \in exclude_list.items THEN body
       ELSE Found(slug)

\* The outer while loop of make_new_slug, entered with the candidate slug
\* and count; both branches of the method run it, the edit branch with
\* xpk = self.pk.
RECURSIVE ProbeLoop(_, _, _, _, _, _, _, _)
ProbeLoop(st, main_slug, slug, count, allow_dashes, extra_filters, exclude_list, xpk) ==
    LET body ==
            LET s1 == IF allow_dashes THEN main_slug \o Str(count)
                      ELSE ReplaceDashes(main_slug \o Str(count))
                r == SkipExcluded(main_slug, s1, count + 1,
                                  exclude_list.items)
            IN IF ~exclude_list.given THEN Raised
               ELSE IF ~SlugExists(st, r.slug, extra_filters, xpk)
               THEN Found(r.slug)
               ELSE ProbeLoop(st, main_slug, r.slug, r.count, allow_dashes,
                              extra_filters, exclude_list, xpk)
    IN IF SlugExists(st, slug, extra_filters, xpk) THEN body
       ELSE IF ~exclude_list.given THEN Raised
       ELSE IF slug \in exclude_list.items THEN body
       ELSE Found(slug)

\* Variant: the creation branch taken without the blank-slug test.
SlugBranch_NoBlankCheck(self, on_edit, on_blank) ==
    IF self.pk = None THEN "create"
    ELSE IF self.pk # None /\ (on_edit \/ (on_blank /\ IsBlank(self.slug)))
    THEN "edit"
    ELSE "none"

\* The branch taken by make_new_slug: "create", "edit" or "none".
SlugBranch(self, on_edit, on_blank) ==
    IF self.pk = None /\ IsBlank(self.slug) THEN "create"
    ELSE IF self.pk # None /\ (on_edit \/ (on_blank /\ IsBlank(self.slug)))
    THEN "edit"
    ELSE "none"

\* Variant: the emptiness test inverted.
CreateMainSlug_Inverted(name, allow_dashes, uuid) ==
    LET m0 == Truncate(slugify(name))
        m1 == IF m0 # <<>> THEN uuid ELSE m0
    IN IF allow_dashes THEN m1 ELSE ReplaceDashes(m1)

\* main_slug of the creation branch; uuid is what uuid.uuid4() returns.
CreateMainSlug(name, allow_dashes, uuid) ==
    LET m0 == Truncate(slugify(name))
        m1 == IF m0 = <<>> THEN uuid ELSE m0
    IN IF allow_dashes THEN m1 ELSE ReplaceDashes(m1)

\* main_slug of the edit / on_blank branch
EditMainSlug(name, allow_dashes) ==
    LET m0 == Truncate(slugify(name))
    IN IF allow_dashes THEN m0 ELSE ReplaceDashes(m0)

\* The slug make_new_slug computes on the given branch, or Raised.
ComputeSlug(st, self, branch, name, allow_dashes, extra_filters, exclude_list, uuid) ==
    IF branch = "create"
    THEN LET main_slug == CreateMainSlug(name, allow_dashes, uuid)
         IN ProbeLoop(st, main_slug, main_slug, 1, allow_dashes,
                      extra_filters, exclude_list, None)
    ELSE LET main_slug == EditMainSlug(name, allow_dashes)
         IN ProbeLoop(st, main_slug, main_slug, 1, allow_dashes,
                      extra_filters, exclude_list, self.pk)

NoSHist ==
    [op |-> "init", branch |-> "none", assigned |-> FALSE, raised |-> FALSE,
     pre_slug |-> NoneSlug, pre_order |-> None, filters |-> NoFilter,
     defaults |-> FALSE, on_edit |-> FALSE, on_blank |-> FALSE]

SInit ==
    /\ storage = <<>>
    /\ rec = [pk |-> None, slug |-> NoneSlug, grp |-> 1, order |-> None]
    /\ shist = NoSHist

\* MyModel(grp=..., slug=..., order=...): a new unsaved record.
NewRecord(grp, slug, order) ==
    /\ rec' = [pk |-> None, slug |-> slug, grp |-> grp, order |-> order]
    /\ shist' = [NoSHist EXCEPT !.op = "new"]
    /\ UNCHANGED <<storage, tvars, rvars>>

\* MyModel.objects.get(pk=p)
Load(p) ==
    /\ p \in 1 .. Len(storage)
    /\ rec' = [pk |-> p, slug |-> storage[p].slug, grp |-> storage[p].grp,
               order |-> storage[p].order]
    /\ shist' = [NoSHist EXCEPT !.op = "load"]
    /\ UNCHANGED <<storage, tvars, rvars>>

\* TimeStampedModel.make_new_slug(name, on_edit, allow_dashes, extra_filters,
\* exclude_list, on_blank), obj and slug_field_name at their defaults.  The
\* name attribute of the instance is not tracked: nm is the name argument
\* when name_given, and otherwise what getattr(self, 'name', '') returns.
\* uuid.uuid4() is drawn only where line 135 runs.
make_new_slug(name_given, nm, on_edit, allow_dashes, extra_filters, exclude_list, on_blank) ==
    \E uuid \in IF /\ SlugBranch(rec, on_edit, on_blank) = "create"
                   /\ Truncate(slugify(nm)) = <<>>
                THEN UUIDs ELSE {<<>>} :
    LET branch == SlugBranch(rec, on_edit, on_blank)
        res == ComputeSlug(storage, rec, branch, nm, allow_dashes,
                           extra_filters, exclude_list, uuid)
        assign == branch # "none" /\ ~res.raised
    IN /\ rec' = IF assign THEN [rec EXCEPT !.slug = res.slug] ELSE rec
       /\ shist' = [NoSHist EXCEPT
                      !.op = "make_new_slug",
                      !.branch = branch,
                      !.assigned = assign,
                      !.raised = branch # "none" /\ res.raised,
                      !.pre_slug = rec.slug,
                      !.filters = extra_filters,
                      !.on_edit = on_edit,
                      !.on_blank = on_blank,
                      !.defaults = /\ ~name_given /\ ~on_edit
                                   /\ allow_dashes /\ ~on_blank
                                   /\ extra_filters = NoFilter
                                   /\ exclude_list = NoExcludeList]
       /\ UNCHANGED <<storage, tvars, rvars>>

\* Variant: the maximum taken over every record, extra_filters ignored.
MaxOrderOf_AllRecords(st, extra_filters) ==
    LET vals == { st[p].order : p \in { q \in 1 .. Len(st) :
                      st[q].order # None } }
    IN IF vals = {} THEN None
       ELSE CHOOSE v \in vals : \A w \in vals : w <= v

\* the aggregate Max(order_field) over the records matching extra_filters:
\* None when no matching record has a value (NULLs are ignored).
MaxOrderOf(st, extra_filters) ==
    LET vals == { st[p].order : p \in { q \in 1 .. Len(st) :
                      Matches(st[q], extra_filters) /\ st[q].order # None } }
    IN IF vals = {} THEN None
       ELSE CHOOSE v \in vals : \A w \in vals : w <= v

\* the order set_order_field assigns
NextOrder(st, extra_filters) ==
    LET order == MaxOrderOf(st, extra_filters)
    IN IF order = None THEN 1 ELSE order + 1

\* TimeStampedModel.set_order_field(extra_filters), obj and order_field at
\* their defaults.
set_order_field(extra_filters) ==
    /\ rec' = IF rec.order = None
              THEN [rec EXCEPT !.order = NextOrder(storage, extra_filters)]
              ELSE rec
    /\ shist' = [NoSHist EXCEPT !.op = "set_order_field",
                                !.assigned = rec.order = None,
                                !.pre_order = rec.order,
                                !.filters = extra_filters]
    /\ UNCHANGED <<storage, tvars, rvars>>

Row(self) == [slug |-> self.slug, grp |-> self.grp, order |-> self.order]

\* super().save(): INSERT of a record without primary key, else UPDATE.
Save(limit) ==
    /\ IF rec.pk = None
       THEN /\ Len(storage) < limit
            /\ storage' = Append(storage, Row(rec))
            /\ rec' = [rec EXCEPT !.pk = Len(storage) + 1]
       ELSE /\ storage' = [storage EXCEPT ![rec.pk] = Row(rec)]
            /\ rec' = rec
    /\ shist' = [shist EXCEPT !.op = IF rec.pk = None THEN "insert"
                                     ELSE "update"]
    /\ UNCHANGED <<tvars, rvars>>

\* Records are created one after the other: a new record with a blank slug
\* calls make_new_slug and is saved.
CreateNext ==
    \/ \E g \in Groups, s \in {NoneSlug, <<>>} : NewRecord(g, s, None)
    \/ \E nm \in Names, allow_dashes \in BOOLEAN, f \in Filters,
          x \in ExcludeLists \ {NoExcludeList} :
           make_new_slug(TRUE, nm, FALSE, allow_dashes, f, x, FALSE)
    \/ Save(MaxRecords)

\* Records of one group are created, loaded, given a slug under any
\* combination of the flags, and saved.
SlugNext ==
    \/ \E s \in {NoneSlug, <<>>, <<"a">>} : NewRecord(1, s, None)
    \/ \E p \in 1 .. MaxEdited : Load(p)
    \/ \E nm \in EditNames, on_edit \in BOOLEAN, allow_dashes \in BOOLEAN,
          f \in Filters, x \in EditExcludeLists, on_blank \in BOOLEAN :
           make_new_slug(TRUE, nm, on_edit, allow_dashes, f, x, on_blank)
    \/ \E nm \in EditNames :
           make_new_slug(FALSE, nm, FALSE, TRUE, NoFilter, NoExcludeList,
                         FALSE)
    \/ Save(MaxEdited)

OrderNext ==
    \/ \E g \in Groups, o \in (0 .. MaxOrder) \cup {None} :
           NewRecord(g, <<>>, o)
    \/ \E p \in 1 .. MaxRecords : Load(p)
    \/ \E f \in Filters : set_order_field(f)
    \/ Save(MaxRecords)

----------------------------------------------------------------------------
(* Two creators of new records working against the same storage           *)

Creators == {1, 2}

Other(i) == 3 - i

\* The group a creator's record belongs to: the one its extra_filters name
\* (extra_filters = {'grp': self.grp}), group 1 without filters.
GroupOf(extra_filters) == IF extra_filters = NoFilter THEN 1 ELSE extra_filters

\* No request is running.
RIdle ==
    /\ cr = [i \in Creators |->
               [pc |-> "done", name |-> <<>>, filters |-> NoFilter,
                slug |-> NoneSlug]]
    /\ uniq = FALSE
    /\ raced = FALSE

\* Two requests, each about to create a record; the slug column carries the
\* unique=True constraint of the docstring or not.  The table may already
\* hold a record.
RInit ==
    /\ \E n1 \in Names \cup {<<"-", "!">>}, n2 \in Names \cup {<<"-", "!">>},
          f1 \in Filters, f2 \in Filters :
           cr = [i \in Creators |->
                   [pc |-> "new",
                    name |-> IF i = 1 THEN n1 ELSE n2,
                    filters |-> IF i = 1 THEN f1 ELSE f2,
                    slug |-> NoneSlug]]
    /\ uniq \in BOOLEAN
    /\ raced = FALSE
    /\ storage \in { <<>>, <<[slug |-> <<"a">>, grp |-> 1, order |-> None]>> }
    /\ rec = [pk |-> None, slug |-> NoneSlug, grp |-> 1, order |-> None]
    /\ shist = NoSHist

\* Creator i runs make_new_slug(extra_filters=..., exclude_list=[]) on its
\* new record: the existence probes see the rows stored so far.
Probe(i) ==
    /\ cr[i].pc = "new"
    /\ \E uuid \in UUIDs :
         LET self == [pk |-> None, slug |-> NoneSlug,
                      grp |-> GroupOf(cr[i].filters), order |-> None]
             res == ComputeSlug(storage, self, "create", cr[i].name, TRUE,
                                cr[i].filters, [given |-> TRUE, items |-> {}],
                                uuid)
         IN cr' = [cr EXCEPT ![i].pc = "probed", ![i].slug = res.slug]
    /\ raced' = (raced \/ cr[Other(i)].pc = "probed")
    /\ UNCHANGED <<storage, rec, shist, uniq, tvars>>

\* Creator i saves its record: the INSERT is rejected when the column is
\* unique and a row already holds the slug, else the row is stored.
PersistNew(i) ==
    /\ cr[i].pc = "probed"
    /\ IF uniq /\ \E p \in 1 .. Len(storage) : storage[p].slug = cr[i].slug
       THEN /\ cr' = [cr EXCEPT ![i].pc = "rejected"]
            /\ UNCHANGED storage
       ELSE /\ cr' = [cr EXCEPT ![i].pc = "saved"]
            /\ storage' = Append(storage,
                                 [slug |-> cr[i].slug,
                                  grp |-> GroupOf(cr[i].filters),
                                  order |-> None])
    /\ UNCHANGED <<rec, shist, uniq, raced, tvars>>

RaceNext ==
    \/ \E i \in Creators : Probe(i)
    \/ \E i \in Creators : PersistNew(i)

----------------------------------------------------------------------------
(* Specifications                                                          *)

Init == TInit /\ SInit /\ RIdle

\* One record's timestamps under saves, manual dates and reloads.
SpecTime == Init /\ [][TNext]_vars

\* The same without set_created_date and without constructor arguments.
ModifiedNext ==
    \/ \E d \in OptDates : set_modified_date(d)
    \/ Persist
    \/ Reload

SpecModified == Init /\ [][ModifiedNext]_vars

SpecCreate == Init /\ [][CreateNext]_vars

SpecSlug == Init /\ [][SlugNext]_vars

SpecOrder == Init /\ [][OrderNext]_vars

RaceInit == TInit /\ RInit

SpecRace == RaceInit /\ [][RaceNext]_vars

----------------------------------------------------------------------------
(* Properties                                                              *)

\* C1: every persist made while update_modified is unset stores the time of
\* that persist in modified, whatever update_created is and whether or not
\* modified already holds a value.
C1_ModifiedStoredOnEveryPersist ==
    (hist.op = "persist" /\ inst.update_modified)
        => db.modified = hist.time

\* C2 as stated: with update_created unset, a persist assigns the current
\* time to created only when created is empty and the persist is the first
\* one; every other persist leaves created unchanged.
C2_CreatedOnlyWhenEmpty ==
    (hist.op = "persist" /\ inst.update_created)
        => IF hist.add /\ hist.pre_created = None
           THEN db.created = hist.time
           ELSE db.created = hist.pre_created

\* C2 amended: with update_created unset, the first persist of a record
\* assigns the current time to created whether or not created holds a value;
\* every later persist leaves the attribute and the stored created unchanged.
C2_CreatedOnFirstPersist ==
    (hist.op = "persist" /\ inst.update_created)
        => IF hist.add
           THEN db.created = hist.time /\ inst.created = hist.time
           ELSE /\ db.created = hist.prev_created
                /\ inst.created = hist.pre_created

C2_Witness ==
    /\ hist.op = "persist"
    /\ inst.update_created
    /\ hist.add
    /\ hist.pre_created # None
    /\ hist.pre_created # hist.time

\* C6: after set_created_date(d) with a non-empty d every later persist of
\* the instance stores created = d, and after set_modified_date(m) with a
\* non-empty m every later persist stores modified = m.
C6_ManualDatesKept ==
    /\ (hist.op = "persist" /\ hist.manual_created # None)
           => db.created = hist.manual_created
    /\ (hist.op = "persist" /\ hist.manual_modified # None)
           => db.modified = hist.manual_modified

C6_Witness ==
    /\ hist.op = "persist"
    /\ ~hist.add
    /\ hist.manual_created \notin {None, hist.time}
    /\ hist.manual_modified \notin {None, hist.time}
    /\ db.created = hist.manual_created
    /\ db.modified = hist.manual_modified

\* C9 as stated: every persist with update_modified unset stores a modified
\* value strictly later than the one the record held in storage before.
C9_ModifiedAdvances ==
    (hist.op = "persist" /\ inst.update_modified /\ hist.prev_modified # None)
        => db.modified > hist.prev_modified

\* C9 amended: every persist with update_modified unset stores the clock
\* time of that persist; the stored value fails to advance only over a value
\* that a suppressed persist stored from set_modified_date.
C9_ModifiedIsClock ==
    (hist.op = "persist" /\ inst.update_modified)
        => /\ db.modified = hist.time
           /\ (hist.prev_modified # None /\ hist.prev_modified >= db.modified)
                  => ~hist.prev_auto

C9_Witness ==
    /\ hist.op = "persist"
    /\ inst.update_modified
    /\ hist.prev_modified # None
    /\ hist.prev_auto
    /\ db.modified > hist.prev_modified

\* C3: the slug make_new_slug assigns to a new record differs from the slug
\* of every stored record matching the same extra_filters, and still does
\* once the record is inserted.
C3_NewSlugUnique ==
    /\ (shist.op = "make_new_slug" /\ shist.branch = "create"
            /\ shist.assigned)
           => \A p \in 1 .. Len(storage) :
                  Matches(storage[p], shist.filters)
                      => storage[p].slug # rec.slug
    /\ (shist.op = "insert" /\ shist.branch = "create" /\ shist.assigned)
           => /\ storage[rec.pk].slug = rec.slug
              /\ \A p \in 1 .. Len(storage) :
                     (p # rec.pk /\ Matches(storage[p], shist.filters))
                         => storage[p].slug # rec.slug

C3_Witness ==
    /\ shist.op = "make_new_slug"
    /\ shist.branch = "create"
    /\ shist.assigned
    /\ Len(storage) = 2
    /\ storage[1].slug = <<"a">>
    /\ storage[2].slug = <<"a", "1">>
    /\ storage[1].grp = storage[2].grp
    /\ shist.filters = storage[1].grp
    /\ rec.slug = <<"a", "1", "1">>

\* C4: make_new_slug() with every parameter at its default, on a new record
\* with a blank slug, raises nothing and assigns a slug.
C4_DefaultCallAssigns ==
    (shist.op = "make_new_slug" /\ shist.defaults /\ shist.branch = "create")
        => (~shist.raised /\ shist.assigned /\ ~IsBlank(rec.slug))

\* C7: make_new_slug assigns only when the record has no primary key and a
\* blank slug, or on_edit is set, or the slug is blank and on_blank is set;
\* in every other case the slug is left as it was.
C7_AssignsOnlyInCases ==
    shist.op = "make_new_slug"
        => LET cases ==
                   \/ rec.pk = None /\ IsBlank(shist.pre_slug)
                   \/ shist.on_edit
                   \/ IsBlank(shist.pre_slug) /\ shist.on_blank
           IN /\ shist.assigned => cases
              /\ ~cases => (~shist.assigned /\ rec.slug = shist.pre_slug)
              /\ ~shist.assigned => rec.slug = shist.pre_slug

C7_Witness ==
    /\ shist.op = "make_new_slug"
    /\ rec.pk # None
    /\ IsBlank(shist.pre_slug)
    /\ ~shist.on_edit
    /\ ~shist.on_blank
    /\ ~shist.assigned
    /\ ~shist.raised

\* C8: whenever make_new_slug computes a slug, on either branch, the slug
\* assigned is not the empty string.
C8_SlugNeverEmpty ==
    (shist.op = "make_new_slug" /\ shist.assigned) => rec.slug # <<>>

\* C5: set_order_field assigns max+1 over the stored records matching
\* extra_filters that have an order, 1 when there is none, and leaves an
\* order that is already set.
C5_OrderIsMaxPlusOne ==
    shist.op = "set_order_field"
        => LET vals == { storage[p].order :
                           p \in { q \in 1 .. Len(storage) :
                                     /\ Matches(storage[q], shist.filters)
                                     /\ storage[q].order # None } }
           IN IF shist.pre_order # None
              THEN rec.order = shist.pre_order /\ ~shist.assigned
              ELSE IF vals = {}
              THEN rec.order = 1
              ELSE /\ rec.order - 1 \in vals
                   /\ \A v \in vals : v < rec.order

C5_Witness ==
    /\ shist.op = "set_order_field"
    /\ shist.pre_order = None
    /\ shist.filters # NoFilter
    /\ rec.order = 2
    /\ \E p \in 1 .. Len(storage) :
           ~Matches(storage[p], shist.filters) /\ storage[p].order >= 2

BothProbedTogether ==
    /\ raced
    /\ cr[1].name = cr[2].name
    /\ cr[1].filters = cr[2].filters

RaceOutcome ==
    (cr[1].pc \in {"saved", "rejected"} /\ cr[2].pc \in {"saved", "rejected"})
        => IF uniq
           THEN "rejected" \in {cr[1].pc, cr[2].pc}
           ELSE /\ cr[1].pc = "saved" /\ cr[2].pc = "saved"
                /\ \E p, q \in 1 .. Len(storage) :
                       /\ p # q
                       /\ storage[p].slug = cr[1].slug
                       /\ storage[q].slug = cr[1].slug
                       /\ storage[p].grp = storage[q].grp

\* C10 as stated: two creators with the same base name and extra_filters
\* that both probe before either persists are assigned the same slug; both
\* rows are stored unless the storage's uniqueness constraint rejects one.
C10_RaceSameSlug ==
    BothProbedTogether => (cr[1].slug = cr[2].slug /\ RaceOutcome)

\* C10 amended: the same for a base name that normalizes to a non-empty
\* slug (for an empty one each creator draws its own random identifier).
C10_RaceSameSlugNonEmpty ==
    (BothProbedTogether /\ Truncate(slugify(cr[1].name)) # <<>>)
        => (cr[1].slug = cr[2].slug /\ RaceOutcome)

C10_Witness ==
    /\ BothProbedTogether
    /\ Truncate(slugify(cr[1].name)) # <<>>
    /\ ~uniq
    /\ cr[1].pc = "saved"
    /\ cr[2].pc = "saved"
    /\ cr[1].slug = <<"a", "1">>
    /\ cr[2].slug = <<"a", "1">>

====
